---- MODULE Spec2Model ----
(***************************************************************************)
(* Model of nigeria_heat_index.py: one top-to-bottom run of the Streamlit  *)
(* script.  The environment (secret store, process environment, key file,  *)
(* the remote ERA5 archive and the slider widgets' session state) is fixed *)
(* when the run starts; the script's steps are the actions.                *)
(*                                                                         *)
(* Time is counted in ticks since 1980-01-01T00:00Z, TicksPerDay ticks to  *)
(* a day (Earth Engine counts milliseconds since 1970; only order and the  *)
(* one-day distance matter here).  A raster is modelled by one sample per  *)
(* band: every Earth Engine expression used by the script is evaluated     *)
(* pixel by pixel, so a band value stands for any one pixel of the grid.   *)
(* Kelvin samples are whole numbers; the arithmetic on them is exact       *)
(* decimal arithmetic (the script's doubles agree with it to about 1e-13). *)
(***************************************************************************)
EXTENDS Integers, Sequences, FiniteSets, TLC

VARIABLES
  secrets,          \* TRUE iff "earthengine" is a key of st.secrets
  EE_SA_JSON,       \* the environment variable: "unset", "empty" or "json"
  keyFileExists,    \* TRUE iff keys/service_account.json exists
  archive,          \* the remote archive: band name -> time-ordered rasters
  widget,           \* session state of the three sliders
  pc,               \* position of the script
  credentials,      \* the source the credential object was built from
  consulted,        \* the credential sources the script has looked at
  initialized,      \* ee.Initialize(credentials) has returned
  era5_2mt,         \* temperature collection
  era5_2d,          \* dewpoint collection
  relativeHumidity, \* era5_2mt.map(compute_relative_humidity)
  heatIndex,        \* relativeHumidity.map(compute_heat_index)
  selected_date,    \* the formatted date string (a sequence of characters)
  layer             \* what Map.addLayer was given for "Heat Index"

vars == <<secrets, EE_SA_JSON, keyFileExists, archive, widget, pc, credentials,
          consulted, initialized, era5_2mt, era5_2d, relativeHumidity,
          heatIndex, selected_date, layer>>

----------------------------------------------------------------------------
(* Bounds of the model *)

\* longest archive the remote service returns for one band
MaxLen == 2
\* resolution of the time axis: ticks in one day
TicksPerDay == 2

----------------------------------------------------------------------------
(* Exact arithmetic: a number is NumLimbs limbs, least significant first,  *)
(* in base Base; the low limbs are in 0..Base-1 and the top limb carries   *)
(* the sign.                                                               *)

Base == 100 * 100
BigZero == <<0, 0, 0, 0, 0, 0>>
NumLimbs == Len(BigZero)

RECURSIVE Carry(_, _)
\* s with carry c propagated from the least significant limb up
Carry(s, c) ==
  IF Len(s) = 1 THEN <<s[1] + c>>
  ELSE <<(s[1] + c) % Base>> \o Carry(Tail(s), (s[1] + c) \div Base)

BigInt(n) == Carry(<<n>> \o Tail(BigZero), 0)
BigAdd(a, b) == Carry([i \in 1..NumLimbs |-> a[i] + b[i]], 0)
BigSub(a, b) == Carry([i \in 1..NumLimbs |-> a[i] - b[i]], 0)
\* a * k for a machine-size k
BigMul(a, k) == Carry([i \in 1..NumLimbs |-> a[i] * k], 0)
BigLeq(a, b) == BigSub(b, a)[NumLimbs] >= 0

RECURSIVE BigMulPow(_, _, _)
\* a * k^n
BigMulPow(a, k, n) == IF n = 0 THEN a ELSE BigMulPow(BigMul(a, k), k, n - 1)

\* Decimal places carried by a heat-index value
HIDigits == 3 * 4
\* Decimal places of a Fahrenheit temperature (273.15 has two)
TfDigits == 1 + 1
\* the decimal literal m * 10^-e
Dec(m, e) == [m |-> m, e |-> e]

----------------------------------------------------------------------------
(* Calendar and date strings *)

Digits == <<"0", "1", "2", "3", "4", "5", "6", "7", "8", "9">>
DigitVal(c) == (CHOOSE d \in 1..10 : Digits[d] = c) - 1

RECURSIVE DecDigits(_)
DecDigits(n) ==
  IF n < 10 THEN <<Digits[n + 1]>>
  ELSE DecDigits(n \div 10) \o <<Digits[(n % 10) + 1]>>

RECURSIVE ZeroPad(_, _)
\* Python's format spec 0<w>d
ZeroPad(s, w) == IF Len(s) >= w THEN s ELSE ZeroPad(<<"0">> \o s, w)

FormatDate(y, m, d) ==
  ZeroPad(DecDigits(y), 4) \o <<"-">> \o ZeroPad(DecDigits(m), 2)
    \o <<"-">> \o ZeroPad(DecDigits(d), 2)

IsLeap(y) == (y % 4 = 0 /\ y % 100 # 0) \/ y % 400 = 0
DaysInMonth(y, m) ==
  CASE m \in {1, 3, 5, 7, 8, 10, 12} -> 31
    [] m \in {4, 6, 9, 11} -> 30
    [] OTHER -> IF IsLeap(y) THEN 29 ELSE 28

RECURSIVE DaysBeforeMonth(_, _)
DaysBeforeMonth(y, m) ==
  IF m = 1 THEN 0 ELSE DaysBeforeMonth(y, m - 1) + DaysInMonth(y, m - 1)

LeapsThrough(y) == (y \div 4) - (y \div 100) + (y \div 400)
\* days from 1980-01-01 to y-m-d
DayNumber(y, m, d) ==
  365 * (y - 1980) + LeapsThrough(y - 1) - LeapsThrough(1979)
    + DaysBeforeMonth(y, m) + (d - 1)

RECURSIVE DigitsVal(_)
DigitsVal(s) ==
  IF s = <<>> THEN 0
  ELSE 10 * DigitsVal(SubSeq(s, 1, Len(s) - 1)) + DigitVal(s[Len(s)])

\* Earth Engine's reading of a 'YYYY-MM-DD' string: the instant of that
\* day's midnight, or a parse error when it is not a calendar date.
ParseDate(s) ==
  LET y == DigitsVal(SubSeq(s, 1, 4))
      m == DigitsVal(SubSeq(s, 6, 7))
      d == DigitsVal(SubSeq(s, 9, 10))
  IN IF m \in 1..12 /\ d \in 1..DaysInMonth(y, m)
     THEN [ok |-> TRUE, tick |-> DayNumber(y, m, d) * TicksPerDay]
     ELSE [ok |-> FALSE, tick |-> 0]

startDate == <<"1", "9", "8", "0", "-", "0", "1", "-", "0", "1">>
endDate == <<"2", "0", "2", "5", "-", "0", "9", "-", "1", "5">>

----------------------------------------------------------------------------
(* Earth Engine values.  An image is a time stamp and a list of bands; a   *)
(* collection is a list of images, or the error its evaluation ends in.    *)

TempBand == "mean_2m_air_temperature"
DewBand == "dewpoint_2m_temperature"
NoTime == 0 - 1 - 10 * TicksPerDay

Image(t, name, v) == [time |-> t, bands |-> <<[name |-> name, value |-> v]>>]
NullImage == [null |-> TRUE]
ErrorImage == [error |-> TRUE]
Collection(imgs) == [ok |-> TRUE, images |-> imgs]
ErrorCollection == [ok |-> FALSE, images |-> <<>>]

\* image.select(name): the value of the band called name
Select(image, name) ==
  LET i == CHOOSE j \in 1..Len(image.bands) : image.bands[j].name = name
  IN image.bands[i].value

BandNames(image) == [j \in 1..Len(image.bands) |-> image.bands[j].name]

\* dst.addBands(src): the bands of src after those of dst, dst's properties
AddBands(dst, src) == [time |-> dst.time, bands |-> dst.bands \o src.bands]

\* img.set('system:time_start', t)
SetTime(img, t) == [img EXCEPT !.time = t]

RECURSIVE SelectSeq2(_, _, _)
\* the images of imgs, in order, whose time is in [from, to)
SelectSeq2(imgs, from, to) ==
  IF imgs = <<>> THEN <<>>
  ELSE LET rest == SelectSeq2(Tail(imgs), from, to)
       IN IF from <= Head(imgs).time /\ Head(imgs).time < to
          THEN <<Head(imgs)>> \o rest ELSE rest

\* collection.filterDate(from, to) / ee.Filter.date(from, to)
FilterDate(imgs, from, to) == SelectSeq2(imgs, from, to)

\* (mutant of First) the last match instead of the first
LastImage(imgs) == IF imgs = <<>> THEN NullImage ELSE imgs[Len(imgs)]

\* collection.first(): null on an empty collection
First(imgs) == IF imgs = <<>> THEN NullImage ELSE Head(imgs)

----------------------------------------------------------------------------
(* STEP 1: credential resolution *)

\* (mutant of ServiceAccountCredentials) the key file is not opened here
ServiceAccountCredentialsLazy(fileThere) == TRUE

\* ee.ServiceAccountCredentials(service_account, key_file) opens key_file:
\* it returns a credential object only when the file is there.
ServiceAccountCredentials(fileThere) == fileThere

\* (mutant of ResolveCredential) the environment variable is tried first
ResolveCredentialEnvFirst(sec, env, keyFile) ==
  IF env = "json"
  THEN [source |-> "env", consulted |-> {"env"}, ok |-> TRUE]
  ELSE IF sec
  THEN [source |-> "secrets", consulted |-> {"env", "secrets"}, ok |-> TRUE]
  ELSE [source |-> "file", consulted |-> {"secrets", "env", "file"},
        ok |-> keyFile]

\* The if / elif / else over the three sources: which source the credential
\* is built from, which sources were looked at, and whether building it
\* succeeded.  The first two branches write the key to a fresh temporary
\* file, which therefore exists; the last one names the local key file.
ResolveCredential(sec, env, keyFile) ==
  IF sec
  THEN [source |-> "secrets", consulted |-> {"secrets"},
        ok |-> ServiceAccountCredentials(TRUE)]
  ELSE IF env = "json"
  THEN [source |-> "env", consulted |-> {"secrets", "env"},
        ok |-> ServiceAccountCredentials(TRUE)]
  ELSE [source |-> "file", consulted |-> {"secrets", "env", "file"},
        ok |-> ServiceAccountCredentials(keyFile)]

Environment == <<secrets, EE_SA_JSON, keyFileExists, archive, widget>>

ResolveCredentials ==
  /\ pc = "start"
  /\ LET r == ResolveCredential(secrets, EE_SA_JSON, keyFileExists)
     IN /\ consulted' = r.consulted
        /\ credentials' = IF r.ok THEN r.source ELSE "none"
        /\ pc' = IF r.ok THEN "creds" ELSE "failed"
  /\ UNCHANGED <<Environment, initialized, era5_2mt, era5_2d,
                 relativeHumidity, heatIndex, selected_date, layer>>

\* ee.Initialize(credentials)
InitializeEE ==
  /\ pc = "creds"
  /\ initialized' = TRUE
  /\ pc' = "ee"
  /\ UNCHANGED <<Environment, credentials, consulted, era5_2mt, era5_2d,
                 relativeHumidity, heatIndex, selected_date, layer>>

----------------------------------------------------------------------------
(* STEP 3: the two collections *)

\* (mutant of LoadBand) the date filter is left out
LoadBandUnfiltered(remote, band) == Collection(remote[band])

\* ee.ImageCollection('ECMWF/ERA5/DAILY').select(band)
\*   .filter(ee.Filter.date(startDate, endDate)).map(clip)
\* The clip to the boundary leaves the samples inside it, and every sample
\* of the model is inside it.
LoadBand(remote, band) ==
  Collection(FilterDate(remote[band], ParseDate(startDate).tick,
                        ParseDate(endDate).tick))

LoadDatasets ==
  /\ pc = "ee"
  /\ era5_2mt' = LoadBand(archive, TempBand)
  /\ era5_2d' = LoadBand(archive, DewBand)
  /\ pc' = "loaded"
  /\ UNCHANGED <<Environment, credentials, consulted, initialized,
                 relativeHumidity, heatIndex, selected_date, layer>>

\* the dewpoint image compute_relative_humidity pairs with tempImage
DewpointFor(tempImage, dewImages) ==
  LET tempDate == tempImage.time
  IN First(FilterDate(dewImages, tempDate, tempDate + TicksPerDay))

\* (mutant of RHExpression) the result clamped to 0..100
RHClamped(T, D) ==
  LET r == 100 - 5 * (T - D)
  IN IF r < 0 THEN 0 ELSE IF r > 100 THEN 100 ELSE r

\* '100 - 5 * (T - D)'
RHExpression(T, D) == 100 - 5 * (T - D)

\* (mutant of compute_relative_humidity) the result is stamped with the
\* dewpoint image's time
compute_relative_humidity_dewtime(tempImage, dewImages) ==
  LET dewpointImage == DewpointFor(tempImage, dewImages)
  IN IF dewpointImage = NullImage THEN ErrorImage
     ELSE SetTime(AddBands(tempImage,
                           Image(NoTime, "relative_humidity",
                                 100 - 5 * (tempImage.bands[1].value
                                            - dewpointImage.bands[1].value))),
                  dewpointImage.time)

\* dewImages is the module-level era5_2d.  An expression on the null image
\* is an evaluation error.
compute_relative_humidity(tempImage, dewImages) ==
  LET dewpointImage == DewpointFor(tempImage, dewImages)
  IN IF dewpointImage = NullImage THEN ErrorImage
     ELSE LET rh == Image(NoTime, "relative_humidity",
                          RHExpression(tempImage.bands[1].value,
                                       dewpointImage.bands[1].value))
          IN AddBands(tempImage, SetTime(rh, tempImage.time))

\* collection.map(f): the images f returns, in order; an evaluation error in
\* any element is the error of the whole collection.
MapResult(coll, out) ==
  IF ~coll.ok \/ \E i \in 1..Len(out) : out[i] = ErrorImage
  THEN ErrorCollection
  ELSE Collection(out)

MapRelativeHumidityOver(temp, dew) ==
  MapResult(temp, [i \in 1..Len(temp.images) |->
                     compute_relative_humidity(temp.images[i], dew.images)])

MapRelativeHumidity ==
  /\ pc = "loaded"
  /\ relativeHumidity' = MapRelativeHumidityOver(era5_2mt, era5_2d)
  /\ pc' = "rh"
  /\ UNCHANGED <<Environment, credentials, consulted, initialized, era5_2mt,
                 era5_2d, heatIndex, selected_date, layer>>

\* (mutant of ToFahrenheit) the Kelvin offset is forgotten
ToFahrenheitNoOffset(tempC) == ((tempC * 100 * 9) \div 5) + 3200

\* tempC.subtract(273.15).multiply(9/5).add(32), in hundredths of a degree
\* (100 * tempC - 27315 is a multiple of 5, so the division is exact)
ToFahrenheit(tempC) == (((tempC * 100 - 27315) * 9) \div 5) + 3200

c1 == Dec(0 - 42379, 3)
c2 == Dec(204901523, 8)
c3 == Dec(1014333127, 8)
c4 == Dec(0 - 22475541, 8)
c5 == Dec(0 - 683783, 8)
c6 == Dec(0 - 5481717, 8)
c7 == Dec(122874, 8)
c8 == Dec(85282, 8)
c9 == Dec(0 - 199, 8)

\* c * T^p * R^q with HIDigits decimal places; T has TfDigits of them
Term(c, T, p, R, q) ==
  BigMulPow(BigMulPow(BigMulPow(BigInt(c.m), 10,
                                HIDigits - c.e - TfDigits * p), T, p), R, q)

\* 'c1 + c2*T + c3*R + c4*T*R + c5*T**2 + c6*R**2 + c7*T**2*R + c8*T*R**2
\*  + c9*T**2*R**2'
HIExpression(T, R) ==
  BigAdd(BigAdd(BigAdd(BigAdd(BigAdd(BigAdd(BigAdd(BigAdd(
    Term(c1, T, 0, R, 0), Term(c2, T, 1, R, 0)), Term(c3, T, 0, R, 1)),
    Term(c4, T, 1, R, 1)), Term(c5, T, 2, R, 0)), Term(c6, T, 0, R, 2)),
    Term(c7, T, 2, R, 1)), Term(c8, T, 1, R, 2)), Term(c9, T, 2, R, 2))

compute_heat_index(image) ==
  LET tempC == Select(image, TempBand)
      tempF == ToFahrenheit(tempC)
      RH == Select(image, "relative_humidity")
      HI == Image(NoTime, "heat_index", HIExpression(tempF, RH))
  IN AddBands(image, SetTime(HI, image.time))

MapHeatIndexOver(rh) ==
  MapResult(rh, [i \in 1..Len(rh.images) |-> compute_heat_index(rh.images[i])])

MapHeatIndex ==
  /\ pc = "rh"
  /\ heatIndex' = MapHeatIndexOver(relativeHumidity)
  /\ pc' = "hi"
  /\ UNCHANGED <<Environment, credentials, consulted, initialized, era5_2mt,
                 era5_2d, relativeHumidity, selected_date, layer>>

----------------------------------------------------------------------------
(* STEP 4 and 5: the sliders and the map layer *)

YearMin == 1980
YearMax == 2019
YearDefault == 2000
MonthMin == 1
MonthMax == 12
MonthDefault == 7
DayMin == 1
DayMax == 31
DayDefault == 15

\* st.slider returns the widget's value; selected_date is the f-string
Sliders ==
  /\ pc = "hi"
  /\ selected_date' = FormatDate(widget.year, widget.month, widget.day)
  /\ pc' = "ui"
  /\ UNCHANGED <<Environment, credentials, consulted, initialized, era5_2mt,
                 era5_2d, relativeHumidity, heatIndex, layer>>

\* heatIndex.filter(ee.Filter.date(selected_date)).select('heat_index'):
\* a Filter.date with no end is the one-millisecond range at the start.
HeatIndexLayer(hi, date) ==
  LET r == ParseDate(date)
  IN IF ~r.ok \/ ~hi.ok THEN ErrorCollection
     ELSE LET hit == FilterDate(hi.images, r.tick, r.tick + 1)
          IN Collection([i \in 1..Len(hit) |->
                          Image(hit[i].time, "heat_index",
                                Select(hit[i], "heat_index"))])

AddLayer ==
  /\ pc = "ui"
  /\ layer' = HeatIndexLayer(heatIndex, selected_date)
  /\ pc' = "done"
  /\ UNCHANGED <<Environment, credentials, consulted, initialized, era5_2mt,
                 era5_2d, relativeHumidity, heatIndex, selected_date>>

Next ==
  \/ ResolveCredentials
  \/ InitializeEE
  \/ LoadDatasets
  \/ MapRelativeHumidity
  \/ MapHeatIndex
  \/ Sliders
  \/ AddLayer

----------------------------------------------------------------------------
(* Environments *)

EndTick == ParseDate(endDate).tick
TempTimes == {0 - TicksPerDay, 0, TicksPerDay, EndTick}
DewTimes == {0, 1, TicksPerDay, 2 * TicksPerDay}
TempVals == {290, 300, 310}
DewVals == {285, 290, 295}

Rasters(times, vals, band) == {Image(t, band, v) : t \in times, v \in vals}

\* the time-ordered archives of at most MaxLen rasters
Archives(times, vals, band) ==
  {s \in UNION {[1..n -> Rasters(times, vals, band)] : n \in 0..MaxLen} :
     \A i \in 1..(Len(s) - 1) : s[i].time < s[i + 1].time}

TempArchives == Archives(TempTimes, TempVals, TempBand)
DewArchives == Archives(DewTimes, DewVals, DewBand)
Remote(t, d) == [b \in {TempBand, DewBand} |-> IF b = TempBand THEN t ELSE d]

\* The two-day archive: day 1 T=310 D=295, day 2 T=295 D=295
TwoDayTemp == <<Image(0, TempBand, 310), Image(TicksPerDay, TempBand, 295)>>
TwoDayDew == <<Image(0, DewBand, 295), Image(TicksPerDay, DewBand, 295)>>

DefaultWidget == [year |-> YearDefault, month |-> MonthDefault, day |-> DayDefault]
FirstDayWidget == [year |-> YearMin, month |-> MonthMin, day |-> DayMin]
AllWidgets ==
  [year : YearMin..YearMax, month : MonthMin..MonthMax,
   day : DayMin..DayMax]

InitWith(secretSet, envSet, fileSet, remotes, widgets) ==
  /\ secrets \in secretSet
  /\ EE_SA_JSON \in envSet
  /\ keyFileExists \in fileSet
  /\ archive \in remotes
  /\ widget \in widgets
  /\ pc = "start"
  /\ credentials = "none"
  /\ consulted = {}
  /\ initialized = FALSE
  /\ era5_2mt = Collection(<<>>)
  /\ era5_2d = Collection(<<>>)
  /\ relativeHumidity = Collection(<<>>)
  /\ heatIndex = Collection(<<>>)
  /\ selected_date = <<>>
  /\ layer = Collection(<<>>)

\* the pipeline over every archive, in one credential environment and with
\* the sliders on the first day of the range
Init ==
  InitWith({TRUE}, {"unset"}, {FALSE},
           {Remote(t, d) : t \in TempArchives, d \in DewArchives},
           {FirstDayWidget})
Spec == Init /\ [][Next]_vars

\* every credential environment
InitStartup ==
  InitWith(BOOLEAN, {"unset", "empty", "json"}, BOOLEAN,
           {Remote(TwoDayTemp, TwoDayDew), Remote(<<>>, <<>>)},
           {DefaultWidget})
SpecStartup == InitStartup /\ [][Next]_vars

\* every slider position, over archives in which every day has its pair
InitUI ==
  InitWith({TRUE}, {"unset"}, {FALSE},
           {Remote(TwoDayTemp, TwoDayDew), Remote(<<>>, <<>>)}, AllWidgets)
SpecUI == InitUI /\ [][Next]_vars

----------------------------------------------------------------------------
(* Properties.  They are stated over the remote archive and the script's   *)
(* variables, with the date range, the pairing window and the formulas     *)
(* written out from the specification.                                     *)

AfterRH == {"rh", "hi", "ui", "done"}
AfterHI == {"hi", "ui", "done"}

\* the configured range [1980-01-01, 2025-09-15) in ticks
RangeStart == 0
RangeEnd == 16694 * TicksPerDay
InRange(img) == RangeStart <= img.time /\ img.time < RangeEnd

\* indices of the temperature rasters of the archive inside the range
TempIdx == {i \in 1..Len(archive[TempBand]) : InRange(archive[TempBand][i])}
\* indices of the in-range dewpoint rasters in the window [T, T + 1 day)
Window(T) ==
  {j \in 1..Len(archive[DewBand]) :
     /\ InRange(archive[DewBand][j])
     /\ T <= archive[DewBand][j].time
     /\ archive[DewBand][j].time < T + TicksPerDay}
Earliest(S) == CHOOSE j \in S : \A k \in S : j <= k
Paired(i) == Window(archive[TempBand][i].time) # {}
EveryDayPaired == \A i \in TempIdx : Paired(i)
\* the dewpoint sample the specification pairs with temperature raster i
PairedDew(i) ==
  archive[DewBand][Earliest(Window(archive[TempBand][i].time))].bands[1].value

\* 100 * Tf for Tf = (T - 273.15) * 9/5 + 32
SpecTf(T) == 180 * T - 45967
k1 == Dec(0 - 42379, 3)
k2 == Dec(204901523, 8)
k3 == Dec(1014333127, 8)
k4 == Dec(0 - 22475541, 8)
k5 == Dec(0 - 683783, 8)
k6 == Dec(0 - 5481717, 8)
k7 == Dec(122874, 8)
k8 == Dec(85282, 8)
k9 == Dec(0 - 199, 8)
\* the Rothfusz polynomial, grouped by powers of RH:
\* (c1 + c2 Tf + c5 Tf^2) + RH (c3 + c4 Tf + c7 Tf^2) + RH^2 (c6 + c8 Tf + c9 Tf^2)
SpecHI(Tf, RH) ==
  LET a0 == BigAdd(BigAdd(Term(k1, Tf, 0, 1, 0), Term(k2, Tf, 1, 1, 0)),
                   Term(k5, Tf, 2, 1, 0))
      a1 == BigAdd(BigAdd(Term(k3, Tf, 0, 1, 0), Term(k4, Tf, 1, 1, 0)),
                   Term(k7, Tf, 2, 1, 0))
      a2 == BigAdd(BigAdd(Term(k6, Tf, 0, 1, 0), Term(k8, Tf, 1, 1, 0)),
                   Term(k9, Tf, 2, 1, 0))
  IN BigAdd(a0, BigMul(BigAdd(a1, BigMul(a2, RH)), RH))
\* the decimal m * 10^-e as a heat-index value
Degrees(m, e) == BigMulPow(BigInt(m), 10, HIDigits - e)

\* the entry of a derived collection computed from temperature raster i
EntriesFor(coll, i) ==
  {k \in 1..Len(coll.images) : coll.images[k].time = archive[TempBand][i].time}

C2_HalfOpenWindowEarliest ==
  pc \notin {"start", "creds", "ee", "failed"} =>
    \A i \in TempIdx :
      LET T == archive[TempBand][i].time
          d == DewpointFor(archive[TempBand][i], era5_2d.images)
      IN IF Window(T) = {} THEN d = NullImage
         ELSE /\ d = archive[DewBand][Earliest(Window(T))]
              /\ T <= d.time
              /\ d.time < T + TicksPerDay

\* dewpoint rasters on day 0 and day 2 only: day 0 resolves to the day-0
\* raster and day 1 to nothing
C2_Witness ==
  /\ pc = "rh"
  /\ Len(archive[TempBand]) = 2 /\ Len(archive[DewBand]) = 2
  /\ archive[TempBand][1].time = 0
  /\ archive[TempBand][2].time = TicksPerDay
  /\ archive[DewBand][1].time = 0
  /\ archive[DewBand][2].time = 2 * TicksPerDay
  /\ DewpointFor(archive[TempBand][1], era5_2d.images) = archive[DewBand][1]
  /\ DewpointFor(archive[TempBand][2], era5_2d.images) = NullImage

\* C3: a temperature raster with no dewpoint raster in its day is skipped:
\* the derived archive holds an entry for exactly the paired rasters.
C3_MissingPairSkipped ==
  pc \in AfterHI =>
    /\ heatIndex.ok
    /\ \A i \in TempIdx :
         Cardinality(EntriesFor(heatIndex, i)) = IF Paired(i) THEN 1 ELSE 0

\* C4: every derived raster, after compute_relative_humidity and after
\* compute_heat_index, carries the time of the temperature raster it was
\* computed from.
C4_TimestampPropagated ==
  /\ (pc \in AfterRH /\ relativeHumidity.ok) =>
       /\ Len(relativeHumidity.images) = Len(era5_2mt.images)
       /\ \A k \in 1..Len(relativeHumidity.images) :
            /\ relativeHumidity.images[k].time = era5_2mt.images[k].time
            /\ relativeHumidity.images[k].bands[1] = era5_2mt.images[k].bands[1]
  /\ (pc \in AfterHI /\ heatIndex.ok) =>
       /\ Len(heatIndex.images) = Len(era5_2mt.images)
       /\ \A k \in 1..Len(heatIndex.images) :
            /\ heatIndex.images[k].time = era5_2mt.images[k].time
            /\ heatIndex.images[k].bands[1] = era5_2mt.images[k].bands[1]

\* an entry whose dewpoint raster has another time than its temperature raster
C4_Witness ==
  /\ pc = "done"
  /\ heatIndex.ok
  /\ \E i \in TempIdx :
       /\ EntriesFor(heatIndex, i) # {}
       /\ archive[DewBand][Earliest(Window(archive[TempBand][i].time))].time
            # archive[TempBand][i].time

\* C5: the relative_humidity band is 100 - 5 * (T - D), T the temperature
\* sample and D the paired dewpoint sample, not clamped.
C5_RelativeHumidityFormula ==
  (pc \in AfterRH /\ relativeHumidity.ok) =>
    \A i \in TempIdx : \A k \in EntriesFor(relativeHumidity, i) :
      LET e == relativeHumidity.images[k]
      IN /\ e.bands[2].name = "relative_humidity"
         /\ e.bands[2].value
              = 100 - 5 * (archive[TempBand][i].bands[1].value - PairedDew(i))

\* one entry below 0 (T - D > 20) and one above 100 (D > T)
C5_Witness ==
  /\ pc = "rh"
  /\ relativeHumidity.ok
  /\ \E k \in 1..Len(relativeHumidity.images) :
       relativeHumidity.images[k].bands[2].value < 0
  /\ \E k \in 1..Len(relativeHumidity.images) :
       relativeHumidity.images[k].bands[2].value > 100

HeatIndexIsPolynomial ==
  \A k \in 1..Len(heatIndex.images) :
    LET e == heatIndex.images[k]
    IN /\ e.bands[3].name = "heat_index"
       /\ e.bands[3].value
            = SpecHI(SpecTf(Select(e, TempBand)), Select(e, "relative_humidity"))

\* the entries with T = 300 K and RH = 50 have a heat index in [lo, hi]
HeatIndexAt300K50Within(lo, hi) ==
  \A k \in 1..Len(heatIndex.images) :
    LET e == heatIndex.images[k]
    IN (Select(e, TempBand) = 300 /\ Select(e, "relative_humidity") = 50) =>
         /\ BigLeq(lo, e.bands[3].value)
         /\ BigLeq(e.bands[3].value, hi)

\* C6 (as amended): the heat_index band is the nine-term Rothfusz polynomial
\* of Tf = (T - 273.15) * 9/5 + 32 and the entry's relative_humidity, with
\* no adjustment; for T = 300 K and RH = 50 it is 81.10 degrees F to two
\* places.
C6_HeatIndexPolynomial ==
  (pc \in AfterHI /\ heatIndex.ok) =>
    /\ HeatIndexIsPolynomial
    /\ HeatIndexAt300K50Within(Degrees(81095, 3), Degrees(81105, 3))

C6_Witness ==
  /\ pc = "hi"
  /\ heatIndex.ok
  /\ \E k \in 1..Len(heatIndex.images) :
       /\ Select(heatIndex.images[k], TempBand) = 300
       /\ Select(heatIndex.images[k], "relative_humidity") = 50

\* C6 (as claimed): the same polynomial, and for T = 300 K and RH = 50 a
\* value of about 83 to 84 degrees F.
C6_Original ==
  (pc \in AfterHI /\ heatIndex.ok) =>
    /\ HeatIndexIsPolynomial
    /\ HeatIndexAt300K50Within(Degrees(83, 0), Degrees(84, 0))

\* C7: the credential comes from the highest-priority available source
\* (secret store, then EE_SA_JSON, then the key file), and no source below
\* an available one is looked at.
C7_FirstAvailableSourceWins ==
  pc # "start" =>
    /\ secrets => (credentials = "secrets" /\ consulted = {"secrets"})
    /\ (~secrets /\ EE_SA_JSON = "json") =>
         (credentials = "env" /\ "file" \notin consulted)
    /\ (~secrets /\ EE_SA_JSON # "json" /\ keyFileExists) =>
         credentials = "file"
    /\ initialized => credentials \in {"secrets", "env", "file"}

C7_Witness ==
  /\ pc = "done"
  /\ secrets /\ EE_SA_JSON = "json" /\ keyFileExists
  /\ credentials = "secrets"
  /\ initialized

NoSourceAvailable ==
  ~secrets /\ EE_SA_JSON \in {"unset", "empty"} /\ ~keyFileExists

\* C8: with no credential source available the run fails at startup: Earth
\* Engine is never initialized, no collection is loaded, nothing is
\* rendered; and a run that loads datasets has a credential.
C8_NoCredentialIsFatal ==
  /\ (NoSourceAvailable /\ pc # "start") =>
       /\ pc = "failed"
       /\ credentials = "none"
       /\ ~initialized
       /\ era5_2mt = Collection(<<>>) /\ era5_2d = Collection(<<>>)
       /\ selected_date = <<>>
       /\ layer = Collection(<<>>)
  /\ pc \in {"loaded", "rh", "hi", "ui", "done"} =>
       (initialized /\ credentials # "none" /\ ~NoSourceAvailable)

C8_Witness ==
  /\ pc = "failed"
  /\ EE_SA_JSON = "empty"
  /\ ~secrets /\ ~keyFileExists

\* the derived rasters of the day the sliders select, if it is a day
SelectedDayEntries ==
  {k \in 1..Len(heatIndex.images) :
     /\ widget.month \in 1..12
     /\ widget.day \in 1..DaysInMonth(widget.year, widget.month)
     /\ heatIndex.images[k].time
          = DayNumber(widget.year, widget.month, widget.day) * TicksPerDay}

\* C9: the three sliders give one zero-padded YYYY-MM-DD string, and a
\* selection with no computed raster (outside the data, or no calendar date)
\* gives an empty layer, never an error.
C9_EmptyLayerNeverError ==
  pc = "done" =>
    /\ Len(selected_date) = 10
    /\ selected_date[5] = "-" /\ selected_date[8] = "-"
    /\ DigitsVal(SubSeq(selected_date, 1, 4)) = widget.year
    /\ DigitsVal(SubSeq(selected_date, 6, 7)) = widget.month
    /\ DigitsVal(SubSeq(selected_date, 9, 10)) = widget.day
    /\ SelectedDayEntries = {} => layer = Collection(<<>>)

\* the derived rasters a run over the archives t, d holds for time X
RunOver(t, d) ==
  MapHeatIndexOver(MapRelativeHumidityOver(LoadBand(Remote(t, d), TempBand),
                                           LoadBand(Remote(t, d), DewBand)))
DerivedAt(hi, X) == {hi.images[k] : k \in {j \in 1..Len(hi.images) : hi.images[j].time = X}}
At(imgs, from, to) ==
  {imgs[j] : j \in {n \in 1..Len(imgs) : from <= imgs[n].time /\ imgs[n].time < to}}

\* C10: a run over other archives that agree with this run's on the
\* temperature raster at X and on the dewpoint rasters in [X, X + 1 day)
\* holds the same derived raster for X, whatever the other times hold; and
\* the run leaves the archives as they were.
C10_NoCrossTimestampDependency ==
  pc \in AfterHI =>
    \A i \in TempIdx :
      LET X == archive[TempBand][i].time
      IN \A t \in TempArchives : \A d \in DewArchives :
           ( /\ At(t, X, X + 1) = At(archive[TempBand], X, X + 1)
             /\ At(d, X, X + TicksPerDay)
                  = At(archive[DewBand], X, X + TicksPerDay) )
           => DerivedAt(RunOver(t, d), X) = DerivedAt(heatIndex, X)

====
